---- MODULE Spec2Model ----
(***************************************************************************)
(* Model of pyUSC3.py: the Usc3 serial client of the SCAPS USC-3 laser     *)
(* controller.  Byte strings and text strings are sequences of one-        *)
(* character strings; a Python value whose type matters carries a tag      *)
(* (bytes / str), because Python never finds a bytes object equal to a     *)
(* str object.                                                             *)
(***************************************************************************)
EXTENDS Integers, Sequences, FiniteSets, TLC

VARIABLES
    serial_number,  \* self.serial_number: the configured target, or None
    port,           \* self.port
    comports,       \* what list_ports.comports() enumerates
    serial,         \* self.serial: "unset", None, or the port it is open on
    outcome,        \* how __init__ ended
    opened,         \* the serial.Serial(...) calls made so far
    pc,             \* "new", "idle", "recv" (blocked in read_until), "raised"
    call,           \* the locals of the command method being executed
    calls,          \* number of command methods entered so far
    tx,             \* frames written to the transport, not yet taken by the device
    rx,             \* bytes sent by the device, not yet read
    response,       \* the value _recv returned to the last _execute_command
    result,         \* what the last command method returned or raised
    io              \* the order of the write and read operations on the transport

vars == <<serial_number, port, comports, serial, outcome, opened,
          pc, call, calls, tx, rx, response, result, io>>

----------------------------------------------------------------------------
(* Bounds of the model *)

MaxDevices == 2
MaxCalls == 2
MaxVecLen == 2
MaxPins == 2
MaxInputPin == 17

----------------------------------------------------------------------------
(* Program constants *)

SCAPS_BAUD_RATE == 115200
ARDUINO_VID == 9025
NumOutputPins == 22

CR == "\r"
LF == "\n"
SP == " "

_trm == <<CR, LF>>
_dlm == <<SP>>
_end == <<LF>>

comm_codes ==
    (<<"0">> :> "Success") @@
    (<<"1">> :> "Too many parameters") @@
    (<<"2">> :> "Too few parameters") @@
    (<<"3">> :> "Unknown command") @@
    (<<"4">> :> "Job not valid") @@
    (<<"5">> :> "Operation not allowed during marking") @@
    (<<"6">> :> "Entity not found") @@
    (<<"7">> :> "Not initialized") @@
    (<<"8">> :> "Parameter out of range") @@
    (<<"9">> :> "Internal error") @@
    (<<"1", "0">> :> "Operation not allowed") @@
    (<<"1", "1">> :> "The internal queue is full and cannot accept any more commands") @@
    (<<"1", "2">> :> "Command not available, probably due to missing Flash license") @@
    (<<"1", "3">> :> "Out of memory") @@
    (<<"1", "4">> :> "Job already exists") @@
    (<<"1", "5">> :> "File not found") @@
    (<<"1", "6">> :> "Command removed") @@
    (<<"1", "7">> :> "Wrong parameter type") @@
    (<<"1", "8">> :> "SN increment must be 0")

----------------------------------------------------------------------------
(* Python values *)

None == "None"

PyBytes(s) == [t |-> "bytes", s |-> s]
PyStr(s) == [t |-> "str", s |-> s]

NoVal == [k |-> "None", n |-> 0, v |-> <<>>]
IntVal(n) == [k |-> "int", n |-> n, v |-> <<>>]
ListVal(v) == [k |-> "list", n |-> 0, v |-> v]
TupleVal(v) == [k |-> "tuple", n |-> 0, v |-> v]

DigitChars == <<"0", "1", "2", "3", "4", "5", "6", "7", "8", "9">>

RECURSIVE str_nat(_)
str_nat(n) ==
    IF n < 10 THEN <<DigitChars[n + 1]>>
    ELSE str_nat(n \div 10) \o <<DigitChars[(n % 10) + 1]>>

str_int(n) == IF n < 0 THEN <<"-">> \o str_nat(-n) ELSE str_nat(n)

RECURSIVE join_repr(_)
join_repr(v) ==
    IF Len(v) = 0 THEN <<>>
    ELSE IF Len(v) = 1 THEN str_int(v[1])
    ELSE str_int(v[1]) \o <<",", SP>> \o join_repr(Tail(v))

(* str(val) for an int, a list of ints and a tuple of ints *)
str(val) ==
    CASE val.k = "int" -> str_int(val.n)
      [] val.k = "list" -> <<"[">> \o join_repr(val.v) \o <<"]">>
      [] val.k = "tuple" ->
            IF Len(val.v) = 1 THEN <<"(">> \o str_int(val.v[1]) \o <<",", ")">>
            ELSE <<"(">> \o join_repr(val.v) \o <<")">>
      [] OTHER -> <<"N", "o", "n", "e">>

(* s[1:-1] *)
slice_1_m1(s) == SubSeq(s, 2, Len(s) - 1)

(* the call to replace left out *)
replace_comma_omitted(s) == s

(* s.replace(',', '') *)
IsNotComma(c) == c /= ","
replace_comma(s) == SelectSeq(s, IsNotComma)

----------------------------------------------------------------------------
(* Usc3._execute_command, lines 102-105: the frame handed to _send *)

(* the response terminator _end appended in place of _trm *)
to_write_end(data, val) ==
    IF val.k /= "None"
    THEN data \o _dlm \o replace_comma(slice_1_m1(str(val))) \o _end
    ELSE data \o _end

to_write(data, val) ==
    IF val.k /= "None"
    THEN data \o _dlm \o replace_comma(slice_1_m1(str(val))) \o _trm
    ELSE data \o _trm

(* Usc3._execute_command, lines 108-111: the value returned for a response. *)
(* The keys of comm_codes are str objects: a bytes response equals none.   *)
in_comm_codes(resp) == resp.t = "str" /\ resp.s \in DOMAIN comm_codes

NoResult ==
    [of |-> "", kind |-> "none", s |-> <<>>, desc |-> "", ints |-> <<>>, exc |-> ""]

decode(m, resp) ==
    IF in_comm_codes(resp)
    THEN [NoResult EXCEPT !.of = m, !.kind = "str", !.desc = comm_codes[resp.s]]
    ELSE [NoResult EXCEPT !.of = m, !.kind = resp.t, !.s = resp.s]

Raise(m, e) == [NoResult EXCEPT !.of = m, !.kind = "raise", !.exc = e]

----------------------------------------------------------------------------
(* Inputs *)

PortNames == <<"COM3", "COM4", "COM5", "COM6">>
ExplicitPorts == {"COM9"}
VendorIds == {ARDUINO_VID, 1027}
SerialNumbers == {"A1", "B2"}

(* list_ports.comports(): every device has its own port path *)
DeviceInfo == [VID : VendorIds, SN : SerialNumbers]
Enumerations ==
    UNION {[1..n -> DeviceInfo] : n \in 0..MaxDevices}
comports_of(e) ==
    [i \in 1..Len(e) |-> [PORT |-> PortNames[i], VID |-> e[i].VID, SN |-> e[i].SN]]

ScalarInts == {-12, -5, 0, 5, 50, 345}
VecInts == {-12, 0, 345}
Vectors == UNION {[1..n -> VecInts] : n \in 0..MaxVecLen}

PinChoices == {1, 2, 3, NumOutputPins}
AllPins == [i \in 1..NumOutputPins |-> i]
PinLists == UNION {[1..n -> PinChoices] : n \in 0..MaxPins} \cup {AllPins}
PulseWidths == {10}

InputPins == 2..MaxInputPin
TriggerModes == {0, 16}

(* lines the device answers with, each ended by LF *)
Responses ==
    { <<"0", LF>>,
      <<"3", LF>>,
      <<"1", "8", LF>>,
      <<"1", "9", LF>>,
      <<"0", CR, LF>>,
      <<"1", "0", SP, "2", "0", SP, "3", "0", LF>>,
      <<"-", "5", SP, "7", LF>> }

----------------------------------------------------------------------------
(* Usc3._port_seek *)

port_list(devices, sn) ==
    LET matches(device) == IF sn = None THEN device.VID = ARDUINO_VID
                           ELSE device.SN = sn
        kept == SelectSeq(devices, matches)
    IN [i \in 1..Len(kept) |-> kept[i].PORT]

(* port_list[0] in place of port_list[-1] *)
_port_seek_first(devices, sn) ==
    LET pl == port_list(devices, sn)
    IN IF Len(pl) = 0 THEN [raised |-> TRUE, port |-> ""]
       ELSE [raised |-> FALSE, port |-> pl[1]]

(* port_list[-1]: an empty list raises IndexError *)
_port_seek(devices, sn) ==
    LET pl == port_list(devices, sn)
    IN IF Len(pl) = 0 THEN [raised |-> TRUE, port |-> ""]
       ELSE [raised |-> FALSE, port |-> pl[Len(pl)]]

----------------------------------------------------------------------------
(* State *)

NoCall ==
    [method |-> "", data |-> <<>>, val |-> NoVal, output_list |-> <<>>,
     pulse_width |-> 0, input_pin |-> 0, trigger_mode |-> 0]

Init ==
    /\ serial_number \in {None} \cup {"A1"}
    /\ port \in {None} \cup ExplicitPorts
    /\ comports \in {comports_of(e) : e \in Enumerations}
    /\ serial = "unset"
    /\ outcome = "pending"
    /\ opened = <<>>
    /\ pc = "new"
    /\ call = NoCall
    /\ calls = 0
    /\ tx = <<>>
    /\ rx = <<>>
    /\ response = PyBytes(<<>>)
    /\ result = NoResult
    /\ io = <<>>

(* Usc3.__init__ with Usc3.connect *)
Construct ==
    /\ pc = "new"
    /\ IF port /= None
       THEN /\ serial' = port
            /\ opened' = Append(opened, [port |-> port, baudrate |-> SCAPS_BAUD_RATE])
            /\ outcome' = "explicit"
            /\ pc' = "idle"
            /\ port' = port
       ELSE LET usc3_port == _port_seek(comports, serial_number)
            IN IF usc3_port.raised
               THEN /\ outcome' = "IndexError"
                    /\ pc' = "raised"
                    /\ UNCHANGED <<serial, opened, port>>
               ELSE IF Len(usc3_port.port) = 0
               THEN /\ outcome' = "DeviceNotFound"
                    /\ serial' = None
                    /\ pc' = "idle"
                    /\ UNCHANGED <<opened, port>>
               ELSE /\ port' = usc3_port.port
                    /\ opened' = Append(opened, [port |-> usc3_port.port,
                                                 baudrate |-> SCAPS_BAUD_RATE])
                    /\ serial' = usc3_port.port
                    /\ outcome' = "discovered"
                    /\ pc' = "idle"
    /\ UNCHANGED <<serial_number, comports, call, calls, tx, rx, response, result, io>>

----------------------------------------------------------------------------
(* Transport *)

(* the frame written a second time *)
_send_twice(byte_string) ==
    [tx |-> Append(Append(tx, byte_string), byte_string),
     io |-> Append(Append(io, "write"), "write")]

(* Usc3._send: one serial.write of the whole byte string *)
_send(byte_string) ==
    [tx |-> Append(tx, byte_string), io |-> Append(io, "write")]

(* serial.read_until(terminator): everything up to and including the first *)
(* terminator byte                                                         *)
read_until(buf, terminator) ==
    LET at == CHOOSE i \in 1..Len(buf) :
                  /\ buf[i] = terminator[1]
                  /\ \A j \in 1..(i - 1) : buf[j] /= terminator[1]
    IN [data |-> SubSeq(buf, 1, at), rest |-> SubSeq(buf, at + 1, Len(buf))]

(* Usc3._recv *)
_recv(buf) ==
    LET r == read_until(buf, _end)
    IN [response |-> PyBytes(r.data), rx |-> r.rest, io |-> Append(io, "read")]

(* the device takes the pending frame and answers with one line *)
DeviceReply ==
    /\ tx /= <<>>
    /\ rx = <<>>
    /\ \E line \in Responses : rx' = line
    /\ tx' = Tail(tx)
    /\ UNCHANGED <<serial_number, port, comports, serial, outcome, opened,
                   pc, call, calls, response, result, io>>

----------------------------------------------------------------------------
(* Command methods *)

(* Usc3._execute_command up to the blocking read *)
Invoke(c) ==
    /\ pc = "idle"
    /\ calls < MaxCalls
    /\ calls' = calls + 1
    /\ IF serial = None
       THEN /\ result' = Raise(c.method, "AttributeError")
            /\ UNCHANGED <<pc, call, tx, io>>
       ELSE LET w == _send(to_write(c.data, c.val))
            IN /\ tx' = w.tx
               /\ io' = w.io
               /\ call' = c
               /\ pc' = "recv"
               /\ result' = NoResult
    /\ response' = PyBytes(<<>>)
    /\ UNCHANGED <<serial_number, port, comports, serial, outcome, opened, rx>>

Command(m, data, val) ==
    Invoke([NoCall EXCEPT !.method = m, !.data = data, !.val = val])

(* 2**pin in place of 2**(pin-1) *)
RECURSIVE sum_pow_pin(_)
sum_pow_pin(output_list) ==
    IF Len(output_list) = 0 THEN 0
    ELSE 2 ^ output_list[1] + sum_pow_pin(Tail(output_list))

(* Usc3.set_pulse, line 200 *)
RECURSIVE sum_pow(_)
sum_pow(output_list) ==
    IF Len(output_list) = 0 THEN 0
    ELSE 2 ^ (output_list[1] - 1) + sum_pow(Tail(output_list))

(* input_pin | trigger_mode in place of input_pin + trigger_mode *)
flag_word_or(input_pin, trigger_mode) ==
    IF (input_pin \div 16) % 2 = 1 /\ trigger_mode = 16 THEN input_pin
    ELSE input_pin + trigger_mode

(* Usc3.set_laser_disable_flag, line 227 *)
flag_word(input_pin, trigger_mode) == input_pin + trigger_mode

get_mark_time == Command("get_mark_time", <<"G", "T", "I", SP, "0">>, NoVal)

save == Command("save", <<"S", "V", "G">>, NoVal)

load == Command("load", <<"L", "D", "G">>, NoVal)

get_temperature == Command("get_temperature", <<"G", "U", "T">>, NoVal)

get_home_position == Command("get_home_position", <<"H", "P">>, NoVal)

set_home_position ==
    \E vector \in Vectors :
        \/ Command("set_home_position", <<"H", "P">>, ListVal(vector))
        \/ Command("set_home_position", <<"H", "P">>, TupleVal(vector))

get_digital_out == Command("get_digital_out", <<"O", "O", "F">>, NoVal)

set_digital_out ==
    \E binary_value \in ScalarInts :
        Command("set_digital_out", <<"O", "O", "F">>, IntVal(binary_value))

get_digital_in == Command("get_digital_in", <<"O", "I", "F">>, NoVal)

get_analog_in ==
    \E address \in ScalarInts :
        Command("get_analog_in", <<"A", "I", "N">>, IntVal(address))

get_pulse == Command("get_pulse", <<"L", "P", "J">>, NoVal)

set_pulse ==
    \E output_list \in PinLists, pulse_width \in PulseWidths :
        Invoke([NoCall EXCEPT !.method = "set_pulse",
                              !.data = <<"L", "P", "J">>,
                              !.val = IntVal(sum_pow(output_list)),
                              !.output_list = output_list,
                              !.pulse_width = pulse_width])

run == Command("run", <<"M">>, IntVal(1))

stop == Command("stop", <<"M">>, IntVal(0))

get_loop_count == Command("get_loop_count", <<"L", "C">>, NoVal)

set_loop_count ==
    \E num_loops \in ScalarInts :
        Command("set_loop_count", <<"A", "C">>, IntVal(num_loops))

set_laser_disable_flag ==
    \E input_pin \in InputPins, trigger_mode \in TriggerModes :
        Invoke([NoCall EXCEPT !.method = "set_laser_disable_flag",
                              !.data = <<"F", "L", "A", "G", "S">>,
                              !.val = IntVal(flag_word(input_pin, trigger_mode)),
                              !.input_pin = input_pin,
                              !.trigger_mode = trigger_mode])

(* What the command method makes of the value _execute_command returns.    *)
(* get_home_position calls .split(' ') on it: on a bytes object a str      *)
(* separator raises TypeError; on a status description the single words    *)
(* are not numerals and int() raises ValueError.                           *)
finish(m, r) ==
    IF m = "get_home_position"
    THEN IF r.kind = "bytes" THEN Raise(m, "TypeError")
         ELSE Raise(m, "ValueError")
    ELSE r

(* Usc3._execute_command from the return of the blocking read on *)
Recv ==
    /\ pc = "recv"
    /\ \E i \in 1..Len(rx) : rx[i] = _end[1]
    /\ LET r == _recv(rx)
       IN /\ response' = r.response
          /\ rx' = r.rx
          /\ io' = r.io
          /\ result' = finish(call.method, decode(call.method, r.response))
    /\ call' = NoCall
    /\ pc' = "idle"
    /\ UNCHANGED <<serial_number, port, comports, serial, outcome, opened,
                   calls, tx>>

Next ==
    \/ Construct
    \/ get_mark_time
    \/ save
    \/ load
    \/ get_temperature
    \/ get_home_position
    \/ set_home_position
    \/ get_digital_out
    \/ set_digital_out
    \/ get_digital_in
    \/ get_analog_in
    \/ get_pulse
    \/ set_pulse
    \/ run
    \/ stop
    \/ get_loop_count
    \/ set_loop_count
    \/ set_laser_disable_flag
    \/ DeviceReply
    \/ Recv

Spec == Init /\ [][Next]_vars

----------------------------------------------------------------------------
(* Operators used to state the properties *)

Range(f) == {f[i] : i \in DOMAIN f}

NoDuplicates(f) == \A i, j \in DOMAIN f : f[i] = f[j] => i = j

RECURSIVE SumSet(_)
SumSet(S) ==
    IF S = {} THEN 0
    ELSE LET x == CHOOSE y \in S : TRUE IN x + SumSet(S \ {x})

MaxOf(S) == CHOOSE x \in S : \A y \in S : y <= x

(* the fields of s between occurrences of the separator character *)
RECURSIVE Split(_, _)
Split(s, sep) ==
    IF \A i \in 1..Len(s) : s[i] /= sep THEN <<s>>
    ELSE LET at == CHOOSE i \in 1..Len(s) :
                       s[i] = sep /\ \A j \in 1..(i - 1) : s[j] /= sep
         IN <<SubSeq(s, 1, at - 1)>> \o Split(SubSeq(s, at + 1, Len(s)), sep)

IsDigit(c) == \E d \in 1..10 : DigitChars[d] = c
DigitValue(c) == (CHOOSE d \in 1..10 : DigitChars[d] = c) - 1

IsNumeral(f) ==
    LET digits == IF Len(f) > 0 /\ f[1] = "-" THEN Tail(f) ELSE f
    IN Len(digits) > 0 /\ \A i \in 1..Len(digits) : IsDigit(digits[i])

RECURSIVE NatOf(_)
NatOf(digits) ==
    IF Len(digits) = 0 THEN 0
    ELSE 10 * NatOf(SubSeq(digits, 1, Len(digits) - 1)) + DigitValue(digits[Len(digits)])

IntOf(f) == IF f[1] = "-" THEN 0 - NatOf(Tail(f)) ELSE NatOf(f)

AllNumerals(fields) == \A i \in 1..Len(fields) : IsNumeral(fields[i])
IntsOf(fields) == [i \in 1..Len(fields) |-> IntOf(fields[i])]

RECURSIVE JoinWithSpaces(_)
JoinWithSpaces(v) ==
    IF Len(v) = 1 THEN str_int(v[1])
    ELSE str_int(v[1]) \o <<SP>> \o JoinWithSpaces(Tail(v))

(* the indices of the enumerated devices that pass the discovery filter *)
MatchingDevices ==
    {i \in 1..Len(comports) :
        IF serial_number = None THEN comports[i].VID = 9025
        ELSE comports[i].SN = serial_number}

Discovering == outcome \notin {"pending", "explicit"}

(* the bytes of the last response before its LF terminator *)
Token == SubSeq(response.s, 1, Len(response.s) - 1)

----------------------------------------------------------------------------
(* Properties *)

(* C1: the frame written for a scalar integer parameter p is the opcode,  *)
(* one space, the base-10 rendering of p and CRLF.                        *)
C1_ScalarFrame ==
    \A i \in 1..Len(tx) :
        call.val.k = "int" =>
            tx[i] = call.data \o <<SP>> \o str_int(call.val.n) \o <<CR, LF>>

(* C2: a response whose token is one of the status codes "0".."18" is     *)
(* returned as the matching description of the status table; every other  *)
(* response is returned unchanged.                                        *)
C2_StatusDescription ==
    (pc = "idle" /\ result.kind \in {"str", "bytes"}) =>
        IF Token \in DOMAIN comm_codes
        THEN result.kind = "str" /\ result.desc = comm_codes[Token]
        ELSE result.kind = "bytes" /\ result.s = response.s

(* C3: the frame written for a sequence v of at least one integer is the  *)
(* opcode, a space, the elements in base 10 joined by single spaces and   *)
(* CRLF; it has no brackets or commas, and splitting its payload on       *)
(* spaces and parsing the fields as integers gives v back.                *)
C3_VectorFrame ==
    \A i \in 1..Len(tx) :
        (call.val.k \in {"list", "tuple"} /\ Len(call.val.v) >= 1) =>
            LET frame == tx[i]
                payload == SubSeq(frame, Len(call.data) + 2, Len(frame) - 2)
                fields == Split(payload, SP)
            IN /\ frame = call.data \o <<SP>> \o JoinWithSpaces(call.val.v) \o <<CR, LF>>
               /\ \A j \in 1..Len(frame) : frame[j] \notin {"[", "]", "(", ")", ","}
               /\ AllNumerals(fields)
               /\ IntsOf(fields) = call.val.v

C3_Witness ==
    /\ call.method = "set_home_position"
    /\ call.val = ListVal(<<-12, 345>>)
    /\ tx = << <<"H", "P", SP, "-", "1", "2", SP, "3", "4", "5", CR, LF>> >>

(* C4: constructed without a port and with no device passing the          *)
(* discovery filter, connection establishment ends as DeviceNotFound,     *)
(* raises nothing and opens no serial port.                               *)
C4_DeviceNotFound ==
    (Discovering /\ MatchingDevices = {}) =>
        (outcome = "DeviceNotFound" /\ opened = <<>>)

(* C5: with at least one device passing the discovery filter (serial      *)
(* number equal to the configured one, whatever the vendor id; else       *)
(* vendor id 0x2341), the port found and opened is that of the last       *)
(* matching device in enumeration order.                                  *)
C5_LastMatch ==
    (Discovering /\ MatchingDevices /= {}) =>
        LET last == comports[MaxOf(MatchingDevices)]
        IN /\ outcome = "discovered"
           /\ port = last.PORT
           /\ serial = last.PORT
           /\ opened = <<[port |-> last.PORT, baudrate |-> 115200]>>
           /\ serial_number /= None => last.SN = serial_number
           /\ serial_number = None => last.VID = 9025

C5_Witness ==
    /\ outcome = "discovered"
    /\ serial_number = "A1"
    /\ Len(comports) = 2
    /\ MatchingDevices = {1, 2}
    /\ comports[2].VID /= 9025
    /\ port = "COM4"

(* C6: every command method does one write followed by one read; over any *)
(* sequence of calls writes and reads alternate, no second frame is       *)
(* written while a response is outstanding, nothing is written again.     *)
C6_WriteThenRead ==
    /\ \A i \in 1..Len(io) : io[i] = IF i % 2 = 1 THEN "write" ELSE "read"
    /\ Len(tx) <= 1
    /\ pc = "recv" => Len(io) = 2 * calls - 1
    /\ pc = "idle" => Len(io) = 2 * calls

C6_Witness ==
    /\ pc = "idle"
    /\ calls = 2
    /\ io = <<"write", "read", "write", "read">>
    /\ result.kind = "bytes"

(* C7: get_home_position returns the integers of a reply made of          *)
(* space-separated decimal integers, in order.                            *)
C7_HomeVector ==
    (pc = "idle" /\ result.of = "get_home_position"
        /\ AllNumerals(Split(Token, SP))) =>
        (result.kind = "list" /\ result.ints = IntsOf(Split(Token, SP)))

(* C8 as stated: set_laser_disable_flag writes no frame for an input pin  *)
(* >= 16, and passes pin + trigger_mode as the FLAGS parameter.           *)
C8_PinRangeChecked ==
    call.method = "set_laser_disable_flag" =>
        /\ call.input_pin < 16
        /\ call.val = IntVal(call.input_pin + call.trigger_mode)

(* C8 as amended: set_laser_disable_flag validates nothing; for every     *)
(* input pin, also one >= 16, and trigger mode 0x00 or 0x10 it writes a   *)
(* FLAGS frame and the parameter it passes is pin + trigger_mode.         *)
C8_FlagWord ==
    call.method = "set_laser_disable_flag" =>
        /\ call.val = IntVal(call.input_pin + call.trigger_mode)
        /\ call.data = <<"F", "L", "A", "G", "S">>
        /\ pc = "recv"
        /\ io[Len(io)] = "write"

C8_Witness ==
    /\ call.method = "set_laser_disable_flag"
    /\ call.input_pin = 16
    /\ call.trigger_mode = 16
    /\ call.val = IntVal(32)
    /\ Len(tx) = 1

(* C9: for a duplicate-free list of pins within 1..22 the LPJ parameter   *)
(* is the sum of 2^(p-1) over the set of its pins, whatever their order,  *)
(* and lies within 0 .. 2^22 - 1.                                         *)
C9_OutputMask ==
    (call.method = "set_pulse" /\ NoDuplicates(call.output_list)
        /\ Range(call.output_list) \subseteq 1..22) =>
        /\ call.data = <<"L", "P", "J">>
        /\ call.val = IntVal(SumSet({2 ^ (p - 1) : p \in Range(call.output_list)}))
        /\ call.val.n >= 0
        /\ call.val.n <= 2 ^ 22 - 1

C9_Witness ==
    /\ call.method = "set_pulse"
    /\ call.output_list = <<3, 1>>
    /\ call.val = IntVal(5)
    /\ Len(tx) = 1

(* C10: every frame written ends with CRLF and has no CR or LF before it. *)
C10_OneLine ==
    \A i \in 1..Len(tx) :
        LET frame == tx[i]
        IN /\ Len(frame) >= 2
           /\ frame[Len(frame) - 1] = CR
           /\ frame[Len(frame)] = LF
           /\ \A j \in 1..(Len(frame) - 2) : frame[j] \notin {CR, LF}

C10_Witness ==
    /\ Len(tx) = 1
    /\ call.val.k = "tuple"
    /\ Len(call.val.v) = 2
    /\ Len(tx[1]) > Len(call.data) + 2

====
